---- MODULE Spec2Model ----
(***************************************************************************)
(* A model of the poker hand-history library: the Combination value        *)
(* object (poker/combination.py), its text codec, and the PokerStars cash  *)
(* hand parser (poker/room/pokerstars.py).                                 *)
(*                                                                         *)
(* Python strings are modelled as sequences of one-character strings, so   *)
(* that startswith, split and the enum look-ups are computed on the text   *)
(* itself.  The code base is Python 2 (unicode(), __unicode__), and the    *)
(* comparisons follow Python 2: None compares less than everything and     *)
(* None < None is False.                                                   *)
(***************************************************************************)
EXTENDS Integers, Sequences, FiniteSets, TLC

VARIABLES
    \* --- Combination objects (poker/combination.py) ---
    x,          \* first Combination under construction / constructed
    y,          \* second Combination, compared with x
    cmp,        \* results of x < y, y < x, x == y
    text,       \* x.to_string()
    decoded,    \* _parse_poker_stars_combination(text)
    \* --- PokerStarsHandHistory (poker/room/pokerstars.py) ---
    raw,                \* self.raw, the hand text
    cls,                \* the class of the object
    header_parsed,
    header_fields,      \* the attributes that parse_header has assigned
    splitted,           \* self._splitted, the lines of raw that the stages read
    hh_pc,              \* the stage of parse() that runs next
    error,              \* the exception that left the last call, None when there is none
    max_players,
    button_seat,
    players,            \* self.players
    preflop_actions,
    flop,
    turn,
    river,
    turn_actions,
    river_actions,
    show_down,
    total_pot,
    rake,
    winners,
    players_advanced,   \* self.players_advanced
    parsed

vars_comb == <<x, y, cmp, text, decoded>>
vars_hand ==
    <<raw, cls, header_parsed, header_fields, splitted, hh_pc, error, max_players, button_seat,
      players, preflop_actions, flop, turn, river, turn_actions, river_actions, show_down,
      total_pot, rake, winners, players_advanced, parsed>>
vars == <<vars_comb, vars_hand>>

None == "None"

(***************************************************************************)
(* Python str operations on sequences of characters.                       *)
(***************************************************************************)
LowerAlphabet == <<"a","b","c","d","e","f","g","h","i","j","k","l","m","n","o","p","q","r","s","t","u","v","w","x","y","z">>
UpperAlphabet == <<"A","B","C","D","E","F","G","H","I","J","K","L","M","N","O","P","Q","R","S","T","U","V","W","X","Y","Z">>

\* unicode.upper() on one character
UpperChar(c) ==
    IF \E i \in 1..Len(LowerAlphabet) : LowerAlphabet[i] = c
    THEN UpperAlphabet[CHOOSE i \in 1..Len(LowerAlphabet) : LowerAlphabet[i] = c]
    ELSE c

\* unicode.upper()
Upper(s) == [i \in 1..Len(s) |-> UpperChar(s[i])]

\* s.startswith(p)
StartsWith(s, p) == Len(s) >= Len(p) /\ SubSeq(s, 1, Len(p)) = p

\* s.find(sep) + 1: the 1-based index of the first occurrence, 0 when there is none
Find(s, sep) ==
    LET hits == {j \in 1..(Len(s) - Len(sep) + 1) : SubSeq(s, j, j + Len(sep) - 1) = sep}
    IN IF hits = {} THEN 0 ELSE CHOOSE j \in hits : \A k \in hits : j <= k

\* s.split(sep)
RECURSIVE Split(_, _)
Split(s, sep) ==
    LET j == Find(s, sep)
    IN IF j = 0 THEN <<s>>
       ELSE <<SubSeq(s, 1, j - 1)>> \o Split(SubSeq(s, j + Len(sep), Len(s)), sep)

(***************************************************************************)
(* Rank (poker/card.py): a PokerEnum whose members are ordered by their    *)
(* definition order and looked up, case-insensitively, by any of their     *)
(* values; val_at(1) is the singular name and val_at(2) the plural name.   *)
(***************************************************************************)
RankOrder == <<"2", "3", "4", "5", "6", "7", "8", "9", "T", "J", "Q", "K", "A">>
Ranks == {RankOrder[i] : i \in 1..Len(RankOrder)}
RankIndex(r) == CHOOSE i \in 1..Len(RankOrder) : RankOrder[i] = r

RankSingular ==
    [r \in Ranks |->
        CASE r = "2" -> <<"D","e","u","c","e">>
          [] r = "3" -> <<"T","h","r","e","e">>
          [] r = "4" -> <<"F","o","u","r">>
          [] r = "5" -> <<"F","i","v","e">>
          [] r = "6" -> <<"S","i","x">>
          [] r = "7" -> <<"S","e","v","e","n">>
          [] r = "8" -> <<"E","i","g","h","t">>
          [] r = "9" -> <<"N","i","n","e">>
          [] r = "T" -> <<"T","e","n">>
          [] r = "J" -> <<"J","a","c","k">>
          [] r = "Q" -> <<"Q","u","e","e","n">>
          [] r = "K" -> <<"K","i","n","g">>
          [] r = "A" -> <<"A","c","e">>]

RankPlural ==
    [r \in Ranks |->
        CASE r = "2" -> <<"D","e","u","c","e","s">>
          [] r = "3" -> <<"T","h","r","e","e","s">>
          [] r = "4" -> <<"F","o","u","r","s">>
          [] r = "5" -> <<"F","i","v","e","s">>
          [] r = "6" -> <<"S","i","x","e","s">>
          [] r = "7" -> <<"S","e","v","e","n","s">>
          [] r = "8" -> <<"E","i","g","h","t","s">>
          [] r = "9" -> <<"N","i","n","e","s">>
          [] r = "T" -> <<"T","e","n","s">>
          [] r = "J" -> <<"J","a","c","k","s">>
          [] r = "Q" -> <<"Q","u","e","e","n","s">>
          [] r = "K" -> <<"K","i","n","g","s">>
          [] r = "A" -> <<"A","c","e","s">>]

\* Rank.val_at(i)
val_at(r, i) == IF i = 1 THEN RankSingular[r] ELSE IF i = 2 THEN RankPlural[r] ELSE <<r>>

\* Rank(value) for a text value: the member, or None when the look-up raises ValueError
RankValuesUpper == [r \in Ranks |-> {Upper(val_at(r, i)) : i \in 0..2}]
RankOf(s) ==
    LET u == Upper(s)
        hits == {r \in Ranks : u \in RankValuesUpper[r]}
    IN IF hits = {} THEN None ELSE CHOOSE r \in hits : TRUE

\* a < b for Rank members and None (self.rank < self.second_rank,
\* self.second_rank < other.second_rank): member order, None below every member
RankLt(a, b) ==
    IF a = None THEN b # None
    ELSE IF b = None THEN FALSE
    ELSE RankIndex(a) < RankIndex(b)

(***************************************************************************)
(* CombinationGroup (poker/combination.py)                                 *)
(***************************************************************************)
HIGH_CARD == "HIGH_CARD"
PAIR == "PAIR"
TWO_PAIR == "TWO_PAIR"
THREE_OF_A_KIND == "THREE_OF_A_KIND"
STRAIGHT == "STRAIGHT"
FLUSH == "FLUSH"
FULL_HOUSE == "FULL_HOUSE"
FOUR_OF_A_KIND == "FOUR_OF_A_KIND"
STRAIGHT_FLUSH == "STRAIGHT_FLUSH"

\* __order__
CombinationGroupOrder ==
    <<HIGH_CARD, PAIR, TWO_PAIR, THREE_OF_A_KIND, STRAIGHT, FLUSH, FULL_HOUSE,
      FOUR_OF_A_KIND, STRAIGHT_FLUSH>>
CombinationGroups == {CombinationGroupOrder[i] : i \in 1..Len(CombinationGroupOrder)}

\* the member's value (group.val)
CombinationGroupVal ==
    [g \in CombinationGroups |->
        CASE g = HIGH_CARD -> <<"h","i","g","h"," ","c","a","r","d">>
          [] g = PAIR -> <<"p","a","i","r">>
          [] g = TWO_PAIR -> <<"t","w","o"," ","p","a","i","r">>
          [] g = THREE_OF_A_KIND -> <<"t","h","r","e","e"," ","o","f"," ","a"," ","k","i","n","d">>
          [] g = STRAIGHT -> <<"s","t","r","a","i","g","h","t">>
          [] g = FLUSH -> <<"f","l","u","s","h">>
          [] g = FULL_HOUSE -> <<"f","u","l","l"," ","h","o","u","s","e">>
          [] g = FOUR_OF_A_KIND -> <<"f","o","u","r"," ","o","f"," ","a"," ","k","i","n","d">>
          [] g = STRAIGHT_FLUSH -> <<"s","t","r","a","i","g","h","t"," ","f","l","u","s","h">>]

\* CombinationGroup(value) for a text value, None when the look-up raises ValueError
CombinationGroupValUpper == [g \in CombinationGroups |-> Upper(CombinationGroupVal[g])]
CombinationGroupOf(s) ==
    LET u == Upper(s)
        hits == {g \in CombinationGroups : CombinationGroupValUpper[g] = u}
    IN IF hits = {} THEN None ELSE CHOOSE g \in hits : TRUE

\* self.group < other.group: the order of the members' definition
GroupIndex(g) == CHOOSE i \in 1..Len(CombinationGroupOrder) : CombinationGroupOrder[i] = g
GroupLt(g, h) == GroupIndex(g) < GroupIndex(h)

(***************************************************************************)
(* Combination (poker/combination.py).  A constructed object is the record *)
(* [ok |-> TRUE, group, rank, second_rank]; a constructor that raises      *)
(* gives [ok |-> FALSE, error].                                            *)
(***************************************************************************)
two_rank_combination == {TWO_PAIR, FULL_HOUSE}

Raise(e) == [ok |-> FALSE, error |-> e]

\* Combination.__new__ without the "one rank combination" check
Combination_unchecked(group, rank, second_rank) ==
    IF group = TWO_PAIR /\ RankLt(rank, second_rank)
    THEN [ok |-> TRUE, group |-> group, rank |-> second_rank, second_rank |-> rank]
    ELSE [ok |-> TRUE, group |-> group, rank |-> rank, second_rank |-> second_rank]

\* Combination.__new__ without the swap of a reversed TWO_PAIR
Combination_unswapped(group, rank, second_rank) ==
    IF second_rank # None /\ group \in two_rank_combination
    THEN [ok |-> TRUE, group |-> group, rank |-> rank, second_rank |-> second_rank]
    ELSE IF second_rank # None THEN Raise("ValueError")
    ELSE IF group \in two_rank_combination THEN Raise("ValueError")
    ELSE [ok |-> TRUE, group |-> group, rank |-> rank, second_rank |-> None]

\* Combination.__new__(cls, group, rank, second_rank)
Combination(group, rank, second_rank) ==
    IF second_rank # None /\ group \in two_rank_combination
    THEN IF group = TWO_PAIR /\ RankLt(rank, second_rank)
         THEN [ok |-> TRUE, group |-> group, rank |-> second_rank, second_rank |-> rank]
         ELSE [ok |-> TRUE, group |-> group, rank |-> rank, second_rank |-> second_rank]
    ELSE IF second_rank # None THEN Raise("ValueError")
    ELSE IF group \in two_rank_combination THEN Raise("ValueError")
    ELSE \* second_rank is None, so "self.rank < self.second_rank" is False
         [ok |-> TRUE, group |-> group, rank |-> rank, second_rank |-> None]

\* Combination.__eq__ that ignores second_rank
Combination_eq_no_second(self, other) ==
    self.group = other.group /\ self.rank = other.rank

\* Combination.__eq__(self, other)
Combination_eq(self, other) ==
    self.group = other.group /\ self.rank = other.rank
        /\ self.second_rank = other.second_rank

\* Combination.__lt__ that looks at the rank before the group
Combination_lt_rank_first(self, other) ==
    IF self.rank = other.rank
    THEN IF self.group = other.group
         THEN RankLt(self.second_rank, other.second_rank)
         ELSE GroupLt(self.group, other.group)
    ELSE RankLt(self.rank, other.rank)

\* Combination.__lt__(self, other)
Combination_lt(self, other) ==
    IF self.group = other.group
    THEN IF self.rank = other.rank
         THEN RankLt(self.second_rank, other.second_rank)
         ELSE RankLt(self.rank, other.rank)
    ELSE GroupLt(self.group, other.group)

\* Combination.to_string(self)
to_string(self) ==
    CASE self.group = HIGH_CARD -> <<"h","i","g","h"," ","c","a","r","d"," ">> \o val_at(self.rank, 1)
      [] self.group = PAIR -> <<"p","a","i","r"," ","o","f"," ">> \o val_at(self.rank, 2)
      [] self.group = TWO_PAIR ->
            IF self.second_rank # None
            THEN <<"t","w","o"," ","p","a","i","r",","," ">> \o val_at(self.rank, 2) \o <<" ","a","n","d"," ">>
                    \o val_at(self.second_rank, 2)
            ELSE <<>>
      [] self.group = THREE_OF_A_KIND -> <<"t","h","r","e","e"," ","o","f"," ","a"," ","k","i","n","d",","," ">> \o val_at(self.rank, 2)
      [] self.group = STRAIGHT -> <<"s","t","r","a","i","g","h","t",","," ">> \o val_at(self.rank, 1) \o <<" ","h","i","g","h">>
      [] self.group = FLUSH -> <<"f","l","u","s","h",","," ">> \o val_at(self.rank, 1) \o <<" ","h","i","g","h">>
      [] self.group = FULL_HOUSE ->
            IF self.second_rank # None
            THEN <<"f","u","l","l"," ","h","o","u","s","e",","," ">> \o val_at(self.rank, 2) \o <<" ","f","u","l","l"," ","o","f"," ">>
                    \o val_at(self.second_rank, 2)
            ELSE <<>>
      [] self.group = FOUR_OF_A_KIND -> <<"f","o","u","r"," ","o","f"," ","a"," ","k","i","n","d",","," ">> \o val_at(self.rank, 2)
      [] self.group = STRAIGHT_FLUSH ->
            <<"s","t","r","a","i","g","h","t"," ","f","l","u","s","h",","," ">> \o val_at(self.rank, 1) \o <<" ","h","i","g","h">>

\* Combination(group, Rank(rank_name), Rank(sec_rank_name)) with the look-ups' errors;
\* sec_given is FALSE where the code leaves sec_rank at None
MakeCombination(group, rank_name, sec_given, sec_rank_name) ==
    IF RankOf(rank_name) = None THEN Raise("ValueError")
    ELSE IF sec_given /\ RankOf(sec_rank_name) = None THEN Raise("ValueError")
    ELSE Combination(group, RankOf(rank_name),
                     IF sec_given THEN RankOf(sec_rank_name) ELSE None)

\* the else branch of _parse_poker_stars_combination: "group_name, rank_line"
parse_comma_form(combination_line) ==
    LET parts == Split(combination_line, <<","," ">>)
        group_name == IF StartsWith(parts[1], <<"a"," ">>)
                      THEN SubSeq(parts[1], 3, Len(parts[1]))
                      ELSE parts[1]
        rank_line == parts[2]
        group == CombinationGroupOf(group_name)
    IN IF Len(parts) # 2 THEN Raise("ValueError")       \* unpacking into two names
       ELSE IF group = None THEN Raise("ValueError")
       ELSE IF group \in {STRAIGHT, STRAIGHT_FLUSH}
       THEN LET parts_to == Split(rank_line, <<" ","t","o"," ">>)
            IN IF Len(parts_to) < 2 THEN Raise("IndexError")
               ELSE MakeCombination(group, parts_to[2], FALSE, <<>>)
       ELSE IF group = FULL_HOUSE
       THEN LET fo == Split(rank_line, <<" ","f","u","l","l"," ","o","f"," ">>)
            IN IF Len(fo) # 2 THEN Raise("ValueError")
               ELSE MakeCombination(group, fo[1], TRUE, fo[2])
       ELSE IF group = TWO_PAIR
       THEN LET an == Split(rank_line, <<" ","a","n","d"," ">>)
            IN IF Len(an) # 2 THEN Raise("ValueError")
               ELSE MakeCombination(group, an[1], TRUE, an[2])
       ELSE MakeCombination(group, Split(rank_line, <<" ">>)[1], FALSE, <<>>)

\* PokerStarsHandHistory._parse_poker_stars_combination(self, combination_line)
parse_poker_stars_combination(combination_line) ==
    IF StartsWith(combination_line, <<"a"," ","p","a","i","r"," ","o","f">>)
    THEN LET parts_of == Split(combination_line, <<" ","o","f"," ">>)
         IN IF Len(parts_of) < 2 THEN Raise("IndexError")
            ELSE MakeCombination(PAIR, parts_of[2], FALSE, <<>>)
    ELSE IF StartsWith(combination_line, <<"h","i","g","h"," ","c","a","r","d">>)
    THEN LET card == Split(combination_line, <<" ","c","a","r","d"," ">>)
         IN IF Len(card) < 2 THEN Raise("IndexError")
            ELSE MakeCombination(HIGH_CARD, card[2], FALSE, <<>>)
    ELSE parse_comma_form(combination_line)

(***************************************************************************)
(* The Combination operations as a state machine: two objects are built    *)
(* from arbitrary arguments and compared; the first is rendered and the    *)
(* rendering parsed back.                                                  *)
(***************************************************************************)
Unset == [set |-> FALSE]
SecondRankArgs == Ranks \cup {None}

Built(group, rank, second_rank) ==
    [set |-> TRUE, group |-> group, rank |-> rank, second_rank |-> second_rank,
     obj |-> Combination(group, rank, second_rank)]

IsObject(v) == v.set /\ v.obj.ok

InitComb ==
    /\ x = Unset
    /\ y = Unset
    /\ cmp = Unset
    /\ text = Unset
    /\ decoded = Unset

\* x = Combination(group, rank, second_rank)
NewX ==
    /\ ~x.set
    /\ \E group \in CombinationGroups, rank \in Ranks, second_rank \in SecondRankArgs :
          x' = Built(group, rank, second_rank)
    /\ UNCHANGED <<y, cmp, text, decoded>>
    /\ UNCHANGED vars_hand

\* y = Combination(group, rank, second_rank)
NewY ==
    /\ IsObject(x) /\ ~y.set /\ ~text.set
    /\ \E group \in CombinationGroups, rank \in Ranks, second_rank \in SecondRankArgs :
          y' = Built(group, rank, second_rank)
    /\ UNCHANGED <<x, cmp, text, decoded>>
    /\ UNCHANGED vars_hand

\* x < y, y < x, x == y
Compare ==
    /\ IsObject(x) /\ IsObject(y) /\ ~cmp.set
    /\ cmp' = [set |-> TRUE,
               lt |-> Combination_lt(x.obj, y.obj),
               gt |-> Combination_lt(y.obj, x.obj),
               eq |-> Combination_eq(x.obj, y.obj)]
    /\ UNCHANGED <<x, y, text, decoded>>
    /\ UNCHANGED vars_hand

\* text = x.to_string()
Render ==
    /\ IsObject(x) /\ ~y.set /\ ~text.set
    /\ text' = [set |-> TRUE, s |-> to_string(x.obj)]
    /\ UNCHANGED <<x, y, cmp, decoded>>
    /\ UNCHANGED vars_hand

\* decoded = self._parse_poker_stars_combination(text)
ParseCombination ==
    /\ text.set /\ ~decoded.set
    /\ decoded' = [set |-> TRUE, obj |-> parse_poker_stars_combination(text.s)]
    /\ UNCHANGED <<x, y, cmp, text>>
    /\ UNCHANGED vars_hand

NextComb ==
    \/ NewX
    \/ NewY
    \/ Compare
    \/ Render
    \/ ParseCombination

(***************************************************************************)
(* Properties of Combination                                               *)
(***************************************************************************)
TwoRankGroups == {"TWO_PAIR", "FULL_HOUSE"}

\* the claimed strength order of the groups, weakest first
ClaimedGroupOrder ==
    <<"HIGH_CARD", "PAIR", "TWO_PAIR", "THREE_OF_A_KIND", "STRAIGHT", "FLUSH",
      "FULL_HOUSE", "FOUR_OF_A_KIND", "STRAIGHT_FLUSH">>
ClaimedGroupRank(g) == CHOOSE i \in 1..Len(ClaimedGroupOrder) : ClaimedGroupOrder[i] = g
\* the natural order of the card ranks, an absent rank counting as 0
ClaimedRankValue(r) ==
    IF r = None THEN 0
    ELSE CHOOSE i \in 1..13 :
            <<"2", "3", "4", "5", "6", "7", "8", "9", "T", "J", "Q", "K", "A">>[i] = r

ConstructionRule(v) ==
    v.set =>
        /\ v.obj.ok <=> ((v.second_rank # None) <=> (v.group \in TwoRankGroups))
        /\ ~v.obj.ok => v.obj.error = "ValueError"
        /\ v.obj.ok =>
            /\ v.obj.group = v.group
            /\ (v.obj.second_rank # None) <=> (v.obj.group \in TwoRankGroups)

\* C1: a Combination is constructed iff the secondary rank is given exactly when the
\* group is TWO_PAIR or FULL_HOUSE; either violation is a construction error, and a
\* constructed Combination has second_rank set iff its group is TWO_PAIR or FULL_HOUSE.
C1_SecondRankIffTwoRankGroup == ConstructionRule(x) /\ ConstructionRule(y)

\* C1 witness: a FULL_HOUSE with a secondary rank was constructed, and a FULL_HOUSE
\* without one was refused.
C1_Witness ==
    /\ x.set /\ x.obj.ok /\ x.group = FULL_HOUSE /\ x.second_rank = "9"
    /\ y.set /\ ~y.obj.ok /\ y.group = FULL_HOUSE /\ y.second_rank = None

Canonical(v) ==
    v.set /\ v.second_rank # None =>
        IF v.group = TWO_PAIR
        THEN /\ v.obj.ok
             /\ {v.obj.rank, v.obj.second_rank} = {v.rank, v.second_rank}
             /\ ClaimedRankValue(v.obj.rank) >= ClaimedRankValue(v.obj.second_rank)
        ELSE v.obj.ok => v.obj.rank = v.rank /\ v.obj.second_rank = v.second_rank

\* C2: Combination(TWO_PAIR, a, b) equals Combination(TWO_PAIR, b, a); a constructed
\* TWO_PAIR has primary rank >= secondary rank; the swap raises no error and no other
\* group is swapped.
C2_TwoPairCanonical ==
    /\ Canonical(x)
    /\ Canonical(y)
    /\ (cmp.set /\ x.group = TWO_PAIR /\ y.group = TWO_PAIR
            /\ x.rank = y.second_rank /\ x.second_rank = y.rank)
        => cmp.eq /\ x.obj = y.obj

\* C2 witness: Combination(TWO_PAIR, 5, 9) was compared with Combination(TWO_PAIR, 9, 5).
C2_Witness ==
    /\ cmp.set /\ cmp.eq
    /\ x.group = TWO_PAIR /\ x.rank = "5" /\ x.second_rank = "9"
    /\ y.group = TWO_PAIR /\ y.rank = "9" /\ y.second_rank = "5"
    /\ x.obj.rank = "9" /\ x.obj.second_rank = "5"

\* C3: for two Combinations of different groups, x < y iff group(x) comes before
\* group(y) in the claimed order, whatever the ranks are.
C3_GroupMonotonic ==
    (cmp.set /\ x.obj.group # y.obj.group) =>
        /\ cmp.lt <=> ClaimedGroupRank(x.obj.group) < ClaimedGroupRank(y.obj.group)
        /\ cmp.gt <=> ClaimedGroupRank(y.obj.group) < ClaimedGroupRank(x.obj.group)

\* C3 witness: a STRAIGHT_FLUSH of rank 2 was found greater than a FOUR_OF_A_KIND of
\* rank A.
C3_Witness ==
    /\ cmp.set /\ cmp.gt /\ ~cmp.lt
    /\ x.obj.group = STRAIGHT_FLUSH /\ x.obj.rank = "2"
    /\ y.obj.group = FOUR_OF_A_KIND /\ y.obj.rank = "A"

LexKey(c) ==
    <<ClaimedGroupRank(c.group), ClaimedRankValue(c.rank), ClaimedRankValue(c.second_rank)>>
LexLt(a, b) ==
    \/ a[1] < b[1]
    \/ a[1] = b[1] /\ a[2] < b[2]
    \/ a[1] = b[1] /\ a[2] = b[2] /\ a[3] < b[3]

\* C4: comparison is the strict total order that is lexicographic on (group, primary
\* rank, secondary rank): exactly one of x < y, x == y, y < x holds; x == y iff the
\* three fields are equal, two absent secondary ranks counting as equal.
C4_LexicographicTotalOrder ==
    cmp.set =>
        /\ cmp.lt <=> LexLt(LexKey(x.obj), LexKey(y.obj))
        /\ cmp.gt <=> LexLt(LexKey(y.obj), LexKey(x.obj))
        /\ cmp.eq <=> LexKey(x.obj) = LexKey(y.obj)
        /\ Cardinality({k \in {"lt", "eq", "gt"} : cmp[k]}) = 1

\* C4 witness: two Combinations with the same group and primary rank and no secondary
\* rank were compared: equal, and neither less than the other.
C4_Witness ==
    /\ cmp.set /\ cmp.eq /\ ~cmp.lt /\ ~cmp.gt
    /\ x.obj.group = FLUSH /\ y.obj.group = FLUSH
    /\ x.obj.rank = "K" /\ y.obj.rank = "K"
    /\ x.obj.second_rank = None /\ y.obj.second_rank = None

\* C5: for every valid Combination c, decoding the text that to_string renders
\* succeeds and gives a Combination equal to c.
C5_RoundTrip ==
    decoded.set => decoded.obj.ok /\ Combination_eq(decoded.obj, x.obj)

\* the groups on which the round trip of C5 works
C5_RoundTripGroups ==
    decoded.set =>
        (decoded.obj.ok /\ Combination_eq(decoded.obj, x.obj))
            <=> x.obj.group \notin {PAIR, STRAIGHT, STRAIGHT_FLUSH}

(***************************************************************************)
(* PokerStarsHandHistory (poker/room/pokerstars.py).                       *)
(*                                                                         *)
(* The hand text, as parse() reads it after _split_raw, is the record      *)
(* splitted:                                                               *)
(*   table       the groups of _table_re on the table line: max, button    *)
(*   seats       the seat numbers of the "Seat n: name (.. in chips)" lines*)
(*   show_down   whether a 'SHOW DOWN' marker is among the lines           *)
(*   board       whether the summary holds a "Board [..]" line             *)
(*   summary     the per-seat lines of the summary section, in order       *)
(* A summary line is a record of what the code's substring tests and       *)
(* regular expressions take from it: kind is the one of 'showed',          *)
(* 'collected', 'folded', 'mucked' that the line contains ("other" when it *)
(* contains none), seat and name are the groups of that name, status,      *)
(* cards and combination the groups of _showdown_re, street the group of   *)
(* _summary_fold_re (None for "before Flop").                              *)
(***************************************************************************)

\* Position(i) for an integer i: the member holding that value (poker/constants.py)
PositionByInt == <<"BTN", "SB", "BB", "UTG", "UTG1", "UTG2", "UTG3", "UTG4">>
HJ == "HJ"
CO == "CO"
BTN == "BTN"
SB == "SB"
BB == "BB"
EMP == "EMP"

\* the names of the seats' players, and the name _init_seats gives an empty seat
SeatNames ==
    <<"Alice", "Carol", "Bob", "Dave", "Erin", "Frank", "Grace", "Heidi", "Ivan",
      "Judy">>
EmptySeatNames ==
    <<"Empty Seat 1", "Empty Seat 2", "Empty Seat 3", "Empty Seat 4", "Empty Seat 5",
      "Empty Seat 6", "Empty Seat 7", "Empty Seat 8", "Empty Seat 9", "Empty Seat 10">>

\* the texts of the 'with <combination>' part of the showdown lines
CombinationLines ==
    [t \in {"a pair of Aces", "a flush, King high"} |->
        IF t = "a pair of Aces" THEN <<"a"," ","p","a","i","r"," ","o","f"," ","A","c","e","s">> ELSE <<"a"," ","f","l","u","s","h",","," ","K","i","n","g"," ","h","i","g","h">>]

\* hh._BaseHandHistory._init_seats(player_num)
init_seats(player_num) ==
    [i \in 1..player_num |->
        [name |-> EmptySeatNames[i], seat |-> i, combo |-> None, position |-> None]]

\* d[key] = value on a dict d
DictSet(d, key, value) ==
    [k \in DOMAIN d \cup {key} |-> IF k = key THEN value ELSE d[k]]

\* the value of an attribute that is not set (or was deleted)
NoAttr == [deleted |-> TRUE]

(***************************************************************************)
(* _Street (poker/room/pokerstars.py): the action lines of a street.       *)
(*                                                                         *)
(* An action line is its text.  Values that can be None or an object are   *)
(* records: PyNone for None, Float(s) for float(s), Tuple(t) for a tuple;  *)
(* a float keeps the digits it was read from.                              *)
(***************************************************************************)
PyNone == [none |-> TRUE]
Float(s) == [float |-> s]
Tuple(t) == [tuple |-> t]

\* sub in s
Contains(s, sub) == Find(s, sub) # 0

\* s.find(sub, start): 0-based, -1 when there is none
PyFind(s, sub, start) ==
    LET hits == {j \in (start + 1)..(Len(s) - Len(sub) + 1) : SubSeq(s, j, j + Len(sub) - 1) = sub}
    IN IF hits = {} THEN -1 ELSE (CHOOSE j \in hits : \A k \in hits : j <= k) - 1

\* s[a:b] for 0-based a, b, either of which can be negative
PySlice(s, a, b) ==
    LET n == Len(s)
        lo == IF a < 0 THEN (IF n + a < 0 THEN 0 ELSE n + a) ELSE IF a > n THEN n ELSE a
        hi == IF b < 0 THEN (IF n + b < 0 THEN 0 ELSE n + b) ELSE IF b > n THEN n ELSE b
    IN SubSeq(s, lo + 1, hi)

\* s.partition(sep): head, whether sep was found, tail
Partition(s, sep) ==
    LET j == Find(s, sep)
    IN IF j = 0 THEN [head |-> s, found |-> FALSE, tail |-> <<>>]
       ELSE [head |-> SubSeq(s, 1, j - 1), found |-> TRUE,
             tail |-> SubSeq(s, j + Len(sep), Len(s))]

Digits == {"0", "1", "2", "3", "4", "5", "6", "7", "8", "9"}
IsAmountChar(c) == c \in Digits \cup {"."}

\* re.sub("[^\d\.]*", "", amount)
StripAmount(amount) == SelectSeq(amount, IsAmountChar)

\* float(s) for a string of digits and dots: ValueError unless it is a number
float(s) ==
    IF (\E i \in 1..Len(s) : s[i] \in Digits)
            /\ Cardinality({i \in 1..Len(s) : s[i] = "."}) <= 1
    THEN [ok |-> TRUE, val |-> Float(s)]
    ELSE Raise("ValueError")

\* Action (poker/constants.py): the members and their values
ActionValues ==
    [BET |-> {<<"b","e","t">>, <<"b","e","t","s">>},
     RAISE |-> {<<"r","a","i","s","e">>, <<"r","a","i","s","e","s">>},
     CHECK |-> {<<"c","h","e","c","k">>, <<"c","h","e","c","k","s">>},
     FOLD |-> {<<"f","o","l","d">>, <<"f","o","l","d","e","d">>, <<"f","o","l","d","s">>},
     CALL |-> {<<"c","a","l","l">>, <<"c","a","l","l","s">>},
     RETURN |-> {<<"r","e","t","u","r","n">>, <<"r","e","t","u","r","n","e","d">>, <<"u","n","c","a","l","l","e","d">>},
     WIN |-> {<<"w","i","n">>, <<"w","o","n">>, <<"c","o","l","l","e","c","t","e","d">>},
     SHOW |-> {<<"s","h","o","w">>},
     MUCK |-> {<<"d","o","n","'","t"," ","s","h","o","w">>, <<"d","i","d","n","'","t"," ","s","h","o","w">>, <<"d","i","d"," ","n","o","t"," ","s","h","o","w">>, <<"m","u","c","k","s">>},
     THINK |-> {<<"s","e","c","o","n","d","s"," ","l","e","f","t"," ","t","o"," ","a","c","t">>}]
ActionMembers == DOMAIN ActionValues
ActionValuesUpper == [a \in ActionMembers |-> {Upper(v) : v \in ActionValues[a]}]

\* Action(s): the member one of whose values is s, whatever the case; None when no
\* member has it (the look-up raises ValueError)
ActionOf(s) ==
    LET u == Upper(s)
        hits == {a \in ActionMembers : u \in ActionValuesUpper[a]}
    IN IF hits = {} THEN None ELSE CHOOSE a \in hits : TRUE

\* hh._PlayerAction(name, action, amount)
PlayerAction(name, action, amount) == [name |-> name, action |-> action, amount |-> amount]

\* the tuple a line gives, of the amount read by float(): [ok, action, pot], pot the
\* value assigned to self.pot (PyNone when the line assigns none)
action_result(name, action, f, sets_pot) ==
    IF ~f.ok THEN f
    ELSE [ok |-> TRUE, action |-> PlayerAction(name, action, f.val),
          pot |-> IF sets_pot THEN f.val ELSE PyNone]

\* _Street._parse_uncalled(line)
parse_uncalled(line) ==
    LET first_paren_index == PyFind(line, <<"(">>, 0)
        second_paren_index == PyFind(line, <<")">>, 0)
        amount == StripAmount(PySlice(line, first_paren_index + 1, second_paren_index))
        name_start_index == PyFind(line, <<"t","o"," ">>, 0) + 3
        name == PySlice(line, name_start_index, Len(line))
    IN action_result(name, "RETURN", float(amount), FALSE)

\* _Street._parse_collected(line), which assigns the amount to self.pot
parse_collected(line) ==
    LET first_space_index == PyFind(line, <<" ">>, 0)
        name == PySlice(line, 0, first_space_index)
        second_space_index == PyFind(line, <<" ">>, first_space_index + 1)
        third_space_index == PyFind(line, <<" ">>, second_space_index + 1)
        amount == StripAmount(PySlice(line, second_space_index + 1, third_space_index))
    IN action_result(name, "WIN", float(amount), TRUE)

\* _Street._parse_muck(line)
parse_muck(line) ==
    LET colon_index == PyFind(line, <<":">>, 0)
        name == PySlice(line, 0, colon_index)
    IN [ok |-> TRUE, action |-> PlayerAction(name, "MUCK", PyNone), pot |-> PyNone]

\* the return statements of _parse_player_action: Action(action) is evaluated first
\* and raises ValueError for a verb that no member has
player_action_result(name, action, amount) ==
    IF action = None THEN Raise("ValueError")
    ELSE IF amount # <<>> THEN action_result(name, action, float(amount), FALSE)
    ELSE [ok |-> TRUE, action |-> PlayerAction(name, action, PyNone), pot |-> PyNone]

\* _Street._parse_player_action(line)
parse_player_action(line) ==
    LET p1 == Partition(line, <<":"," ">>)
        name == p1.head
        p2 == Partition(p1.tail, <<" ">>)
        action == p2.head
        p3 == Partition(p2.tail, <<" ">>)
        amount == StripAmount(p3.head)
    IN player_action_result(name, ActionOf(action), amount)

\* the branch of _Street._parse_actions that takes the line
classify_line(line) ==
    IF StartsWith(line, <<"U","n","c","a","l","l","e","d"," ","b","e","t">>) THEN parse_uncalled(line)
    ELSE IF Contains(line, <<"c","o","l","l","e","c","t","e","d">>) THEN parse_collected(line)
    ELSE IF Contains(line, <<"d","o","e","s","n","'","t"," ","s","h","o","w"," ","h","a","n","d">>) THEN parse_muck(line)
    ELSE IF Contains(line, <<" ","s","a","i","d",","," ","\"">>) THEN [ok |-> TRUE, skip |-> TRUE]
    ELSE IF Contains(line, <<":">>) THEN parse_player_action(line)
    ELSE Raise("RuntimeError")

\* the loop of _Street._parse_actions over actionlines[i..], from the list actions and
\* self.pot: [ok, actions, pot] at its end, [ok |-> FALSE, error] when a line raises;
\* parse_actions_step is one turn of it, r what the branch of the line gave
RECURSIVE parse_actions_loop(_, _, _, _)
RECURSIVE parse_actions_step(_, _, _, _, _)
parse_actions_step(actionlines, i, actions, pot, r) ==
    IF ~r.ok THEN r
    ELSE IF "skip" \in DOMAIN r THEN parse_actions_loop(actionlines, i + 1, actions, pot)
    ELSE parse_actions_loop(actionlines, i + 1, Append(actions, r.action),
                            IF r.pot # PyNone THEN r.pot ELSE pot)
parse_actions_loop(actionlines, i, actions, pot) ==
    IF i > Len(actionlines)
    THEN [ok |-> TRUE, actions |-> IF actions # <<>> THEN Tuple(actions) ELSE PyNone,
          pot |-> pot]
    ELSE parse_actions_step(actionlines, i, actions, pot, classify_line(actionlines[i]))

\* _Street._parse_actions(actionlines)
parse_actions(actionlines) == parse_actions_loop(actionlines, 1, <<>>, PyNone)

\* the branch of _Street._parse_preflop_actions that takes the line
classify_preflop_line(line) ==
    IF StartsWith(line, <<"U","n","c","a","l","l","e","d"," ","b","e","t">>) THEN parse_uncalled(line)
    ELSE IF Contains(line, <<":">>) THEN parse_player_action(line)
    ELSE Raise("RuntimeError")

\* the loop of _Street._parse_preflop_actions
RECURSIVE parse_preflop_actions_loop(_, _, _)
RECURSIVE parse_preflop_actions_step(_, _, _, _)
parse_preflop_actions_step(actionlines, i, actions, r) ==
    IF ~r.ok THEN r
    ELSE parse_preflop_actions_loop(actionlines, i + 1, Append(actions, r.action))
parse_preflop_actions_loop(actionlines, i, actions) ==
    IF i > Len(actionlines)
    THEN [ok |-> TRUE, actions |-> IF actions # <<>> THEN Tuple(actions) ELSE PyNone]
    ELSE parse_preflop_actions_step(actionlines, i, actions,
                                    classify_preflop_line(actionlines[i]))

\* _Street._parse_preflop_actions(actionlines)
parse_preflop_actions(actionlines) == parse_preflop_actions_loop(actionlines, 1, <<>>)

\* the three cards of self.cards (_Street._parse_cards on a well-formed cards line)
StreetCards == <<"2s", "6d", "6h">>

\* the object that hh._BaseStreet.__init__ leaves, r what _parse_actions gave
street_object(r) ==
    IF ~r.ok THEN r
    ELSE [ok |-> TRUE, obj |-> [cards |-> StreetCards, actions |-> r.actions, pot |-> r.pot]]

\* _Street(lines): hh._BaseStreet.__init__ reads the cards from the first line and the
\* actions from the others; actionlines are the others
Street(actionlines) == street_object(parse_actions(actionlines))

(***************************************************************************)
(* parse_header (poker/room/pokerstars.py).                                *)
(*                                                                         *)
(* The header line of a text is the record of its tokens:                  *)
(*   tournament  PyNone, or the tokens of "Tournament #ident, ...": ident, *)
(*               freeroll (the word Freeroll stands for the buy-in),       *)
(*               currency (the currency after the buy-in, or PyNone)       *)
(*   blinds      form "tour" for "(sb/bb)" and "cash" for "($sb/$bb cur)", *)
(*               sb, currency (the currency after the blinds, or PyNone)   *)
(* A string that can be None is Str(s) or PyNone.  The attributes that     *)
(* parse_header assigns are the dict header_fields, which holds the        *)
(* assigned ones only; self.rake, which _parse_pot assigns too, is rake.   *)
(***************************************************************************)
Str(s) == [str |-> s]

PokerStarsHandHistory == "PokerStarsHandHistory"
PokerStarsTournamentHandHistory == "PokerStarsTournamentHandHistory"

\* d.update(e) on dicts
DictUpdate(d, e) == [k \in DOMAIN d \cup DOMAIN e |-> IF k \in DOMAIN e THEN e[k] ELSE d[k]]

\* Currency (poker/constants.py): the members and their values
CurrencyValues ==
    [USD |-> {<<"$">>, <<"U","S","D">>},
     EUR |-> {<<"€">>, <<"E","U","R">>},
     GBP |-> {<<"£">>, <<"G","B","P">>},
     STARS_COIN |-> {<<"S","C">>, <<"S","t","a","r","s","C","o","i","n">>}]
CurrencyMembers == DOMAIN CurrencyValues
CurrencyValuesUpper == [c \in CurrencyMembers |-> {Upper(v) : v \in CurrencyValues[c]}]

\* Currency(s); None when no member has the value (the look-up raises ValueError)
CurrencyOf(s) ==
    LET u == Upper(s)
        hits == {c \in CurrencyMembers : u \in CurrencyValuesUpper[c]}
    IN IF hits = {} THEN None ELSE CHOOSE c \in hits : TRUE

\* self._header_re.match(self._splitted[0]) of the class c on the header h: the groups,
\* PyNone for a group that took no part in the match; [matched |-> FALSE] when the
\* pattern does not match.  The pattern of PokerStarsHandHistory has no tournament
\* part and requires the $ blinds and the currency after them.
HeaderMatch(c, h) ==
    IF c = PokerStarsHandHistory
    THEN IF h.tournament = PyNone /\ h.blinds.form = "cash" /\ h.blinds.currency # PyNone
         THEN [matched |-> TRUE, cash_sb |-> Str(h.blinds.sb),
               cash_currency |-> h.blinds.currency]
         ELSE [matched |-> FALSE]
    ELSE [matched |-> TRUE,
          tournament_ident |-> IF h.tournament = PyNone THEN PyNone ELSE Str(h.tournament.ident),
          freeroll |-> IF h.tournament # PyNone /\ h.tournament.freeroll
                       THEN Str(<<"F","r","e","e","r","o","l","l">>) ELSE PyNone,
          buyin |-> IF h.tournament # PyNone /\ ~h.tournament.freeroll
                    THEN Str(h.tournament.buyin) ELSE PyNone,
          rake |-> IF h.tournament # PyNone /\ ~h.tournament.freeroll
                   THEN h.tournament.rake ELSE PyNone,
          currency |-> IF h.tournament # PyNone /\ ~h.tournament.freeroll
                       THEN h.tournament.currency ELSE PyNone,
          sb |-> IF h.blinds.form = "tour" THEN Str(h.blinds.sb) ELSE PyNone,
          cash_sb |-> IF h.blinds.form = "cash" THEN Str(h.blinds.sb) ELSE PyNone,
          cash_currency |-> IF h.blinds.form = "cash" THEN h.blinds.currency ELSE PyNone]

\* "if not currency: ... else: ..." at the end of both parse_header methods: the
\* attributes assigned, without self.currency when Currency(currency) raises
money_fields(currency) ==
    IF currency = PyNone
    THEN [ok |-> TRUE, fields |-> [money_type |-> "PLAY", currency |-> None]]
    ELSE IF CurrencyOf(currency.str) = None
    THEN [ok |-> FALSE, error |-> "ValueError", fields |-> [money_type |-> "REAL"]]
    ELSE [ok |-> TRUE, fields |-> [money_type |-> "REAL", currency |-> CurrencyOf(currency.str)]]

\* the attributes PokerStarsHandHistory.parse_header assigns before the money type
cash_first_fields(match) ==
    [sb |-> Float(match.cash_sb.str), game_type |-> "CASH", tournament_ident |-> PyNone,
     buyin |-> PyNone]

\* the rest of PokerStarsHandHistory.parse_header, m what the money type branch gave;
\* _check_twice_hand and _check_splitted_pot find no such line in the summary
cash_header_result(first, m) ==
    IF ~m.ok
    THEN [ok |-> FALSE, error |-> m.error, fields |-> DictUpdate(first, m.fields),
          rake_set |-> TRUE, rake |-> PyNone]
    ELSE [ok |-> TRUE,
          fields |-> DictUpdate(DictUpdate(first, m.fields),
                                [hand_run_twice |-> FALSE, splitted_pot |-> FALSE]),
          rake_set |-> TRUE, rake |-> PyNone]

\* PokerStarsHandHistory.parse_header after _split_raw, on the match of the header:
\* [ok, fields, rake_set, rake], fields the attributes assigned and rake the value
\* assigned to self.rake; match.group raises AttributeError on a match that is None
cash_parse_header(match) ==
    IF ~match.matched
    THEN [ok |-> FALSE, error |-> "AttributeError", fields |-> <<>>, rake_set |-> FALSE]
    ELSE cash_header_result(cash_first_fields(match), money_fields(match.cash_currency))

\* float(a or b) for groups a, b holding digits
FloatOr(a, b) == Float(IF a # PyNone THEN a.str ELSE b.str)

\* the attributes PokerStarsTournamentHandHistory.parse_header assigns before the
\* money type
tournament_first_fields(match, is_tour) ==
    [sb |-> FloatOr(match.sb, match.cash_sb),
     game_type |-> IF is_tour THEN "TOUR" ELSE "CASH",
     tournament_ident |-> match.tournament_ident,
     buyin |-> IF is_tour THEN FloatOr(match.buyin, Str(<<"0">>)) ELSE PyNone]

\* "if match.group('freeroll') and not currency: currency = 'USD'"
freeroll_currency(freeroll, currency) ==
    IF freeroll # PyNone /\ currency = PyNone THEN Str(<<"U","S","D">>) ELSE currency

\* the rest of PokerStarsTournamentHandHistory.parse_header, m what the money type
\* branch gave
tournament_header_result(first, m, rake_value) ==
    [ok |-> m.ok, error |-> IF m.ok THEN None ELSE m.error,
     fields |-> DictUpdate(first, m.fields), rake_set |-> TRUE, rake |-> rake_value]

\* the branches of PokerStarsTournamentHandHistory.parse_header on tournament_ident
tournament_header_branch(match, is_tour) ==
    tournament_header_result(
        tournament_first_fields(match, is_tour),
        money_fields(freeroll_currency(match.freeroll,
                                       IF is_tour THEN match.currency ELSE match.cash_currency)),
        IF is_tour THEN FloatOr(match.rake, Str(<<"0">>)) ELSE PyNone)

\* PokerStarsTournamentHandHistory.parse_header after _split_raw
tournament_parse_header(match) ==
    tournament_header_branch(match, match.tournament_ident # PyNone)

\* parse_header of the class c on the header h
parse_header(c, h) ==
    IF c = PokerStarsHandHistory
    THEN cash_parse_header(HeaderMatch(c, h))
    ELSE tournament_parse_header(HeaderMatch(c, h))

\* the assignments of one run of self.parse_header(), r what it gave
AssignHeader(r) ==
    /\ splitted' = raw
    /\ header_fields' = DictUpdate(header_fields, r.fields)
    /\ rake' = IF r.rake_set THEN r.rake ELSE rake
    /\ header_parsed' = (header_parsed \/ r.ok)
    /\ error' = IF r.ok THEN error ELSE r.error

\* hand.parse_header(), called by the user of the object before parse(), after it
\* returned or after it raised
CallParseHeader ==
    /\ hh_pc \in {"parse_header", "done", "raised"}
    /\ AssignHeader(parse_header(cls, raw.header))
    /\ UNCHANGED <<raw, cls, hh_pc, max_players, button_seat, players, preflop_actions, flop,
                   turn, river, turn_actions, river_actions, show_down, total_pot, winners,
                   players_advanced, parsed>>
    /\ UNCHANGED vars_comb

\* "self.parse_header()" inside parse(): an exception leaves parse()
RunParseHeader(r) ==
    /\ AssignHeader(r)
    /\ hh_pc' = IF r.ok THEN "parse_table" ELSE "raised"

\* parse(): "if not self.header_parsed: self.parse_header()"
ParseHeader ==
    /\ hh_pc = "parse_header"
    /\ IF header_parsed
       THEN /\ UNCHANGED <<splitted, header_fields, rake, header_parsed, error>>
            /\ hh_pc' = "parse_table"
       ELSE RunParseHeader(parse_header(cls, raw.header))
    /\ UNCHANGED <<raw, cls, max_players, button_seat, players, preflop_actions, flop, turn,
                   river, turn_actions, river_actions, show_down, total_pot, winners,
                   players_advanced, parsed>>
    /\ UNCHANGED vars_comb

\* self._parse_table()
ParseTable ==
    /\ hh_pc = "parse_table"
    /\ max_players' = splitted.table.max
    /\ hh_pc' = "parse_players"
    /\ UNCHANGED <<raw, cls, header_parsed, header_fields, splitted, error, button_seat, players,
                   preflop_actions, flop, turn, river, turn_actions, river_actions, show_down,
                   total_pot, rake, winners, players_advanced, parsed>>
    /\ UNCHANGED vars_comb

\* self.players after _parse_players: every seat of a seat line holds its player
parse_players(n, seats) ==
    [i \in 1..n |->
        IF i \in seats
        THEN [name |-> SeatNames[i], seat |-> i, combo |-> None, position |-> None]
        ELSE init_seats(n)[i]]

\* self._parse_players()
ParsePlayers ==
    /\ hh_pc = "parse_players"
    /\ players' = parse_players(max_players, splitted.seats)
    /\ hh_pc' = "parse_button"
    /\ UNCHANGED <<raw, cls, header_parsed, header_fields, splitted, error, max_players,
                   button_seat, preflop_actions, flop, turn, river, turn_actions, river_actions,
                   show_down, total_pot, rake, winners, players_advanced, parsed>>
    /\ UNCHANGED vars_comb

\* self._parse_button()
ParseButton ==
    /\ hh_pc = "parse_button"
    /\ button_seat' = splitted.table.button
    /\ IF splitted.table.button \in 1..Len(players)
       THEN hh_pc' = "parse_preflop" /\ error' = error
       ELSE hh_pc' = "raised" /\ error' = "IndexError"
    /\ UNCHANGED <<raw, cls, header_parsed, header_fields, splitted, max_players, players,
                   preflop_actions, flop, turn, river, turn_actions, river_actions, show_down,
                   total_pot, rake, winners, players_advanced, parsed>>
    /\ UNCHANGED vars_comb

\* the end of _parse_preflop, r what _parse_preflop_actions gave
AssignPreflop(r) ==
    IF r.ok
    THEN preflop_actions' = r.actions /\ hh_pc' = "parse_flop" /\ error' = error
    ELSE preflop_actions' = preflop_actions /\ hh_pc' = "raised" /\ error' = r.error

\* self._parse_preflop()
ParsePreflop ==
    /\ hh_pc = "parse_preflop"
    /\ AssignPreflop(parse_preflop_actions(splitted.preflop))
    /\ UNCHANGED <<raw, cls, header_parsed, header_fields, splitted, max_players, button_seat,
                   players, flop, turn, river, turn_actions, river_actions, show_down, total_pot,
                   rake, winners, players_advanced, parsed>>
    /\ UNCHANGED vars_comb

\* "self.flop = _Street(floplines)", r what _Street gave
AssignFlop(r) ==
    IF r.ok
    THEN flop' = r.obj /\ hh_pc' = "parse_turn" /\ error' = error
    ELSE flop' = flop /\ hh_pc' = "raised" /\ error' = r.error

\* self._parse_flop(): only the search for the FLOP marker is inside the try
ParseFlop ==
    /\ hh_pc = "parse_flop"
    /\ IF splitted.streets < 1
       THEN flop' = PyNone /\ hh_pc' = "parse_turn" /\ error' = error
       ELSE AssignFlop(Street(splitted.flop))
    /\ UNCHANGED <<raw, cls, header_parsed, header_fields, splitted, max_players, button_seat,
                   players, preflop_actions, turn, river, turn_actions, river_actions, show_down,
                   total_pot, rake, winners, players_advanced, parsed>>
    /\ UNCHANGED vars_comb

\* the try block of _parse_street after the marker was found, r what _Street gave:
\* "except ValueError" takes the ValueError that _Street raises on a line
street_result(r) ==
    IF r.ok
    THEN [ok |-> TRUE, street_set |-> FALSE, actions_set |-> TRUE, actions |-> r.obj.actions]
    ELSE IF r.error = "ValueError"
    THEN [ok |-> TRUE, street_set |-> TRUE, actions_set |-> FALSE]
    ELSE [ok |-> FALSE, error |-> r.error, street_set |-> FALSE, actions_set |-> FALSE]

\* self._parse_street(street) on the action lines of the street, present when its
\* marker is among the lines: [ok, street_set, actions_set, actions], street_set when
\* self.<street> = None runs and actions_set when self.<street>_actions is assigned.
\* The try holds the whole body, so the ValueError of a missing marker and the
\* ValueError of a line end alike.
parse_street(present, lines) ==
    IF ~present
    THEN [ok |-> TRUE, street_set |-> TRUE, actions_set |-> FALSE]
    ELSE street_result(Street(lines))

\* the assignments of _parse_street('turn')
AssignTurn(r) ==
    /\ turn' = IF r.street_set THEN PyNone ELSE turn
    /\ turn_actions' = IF r.actions_set THEN r.actions ELSE turn_actions
    /\ IF r.ok
       THEN hh_pc' = "parse_river" /\ error' = error
       ELSE hh_pc' = "raised" /\ error' = r.error

\* self._parse_street('turn')
ParseTurn ==
    /\ hh_pc = "parse_turn"
    /\ AssignTurn(parse_street(splitted.streets >= 2, splitted.turn))
    /\ UNCHANGED <<raw, cls, header_parsed, header_fields, splitted, max_players, button_seat,
                   players, preflop_actions, flop, river, river_actions, show_down, total_pot,
                   rake, winners, players_advanced, parsed>>
    /\ UNCHANGED vars_comb

\* the assignments of _parse_street('river')
AssignRiver(r) ==
    /\ river' = IF r.street_set THEN PyNone ELSE river
    /\ river_actions' = IF r.actions_set THEN r.actions ELSE river_actions
    /\ IF r.ok
       THEN hh_pc' = "parse_showdown" /\ error' = error
       ELSE hh_pc' = "raised" /\ error' = r.error

\* self._parse_street('river')
ParseRiver ==
    /\ hh_pc = "parse_river"
    /\ AssignRiver(parse_street(splitted.streets >= 3, splitted.river))
    /\ UNCHANGED <<raw, cls, header_parsed, header_fields, splitted, max_players, button_seat,
                   players, preflop_actions, flop, turn, turn_actions, show_down, total_pot, rake,
                   winners, players_advanced, parsed>>
    /\ UNCHANGED vars_comb

\* self._parse_showdown()
ParseShowdown ==
    /\ hh_pc = "parse_showdown"
    /\ show_down' = splitted.show_down
    /\ hh_pc' = "parse_pot"
    /\ UNCHANGED <<raw, cls, header_parsed, header_fields, splitted, error, max_players,
                   button_seat, players, preflop_actions, flop, turn, river, turn_actions,
                   river_actions, total_pot, rake, winners, players_advanced, parsed>>
    /\ UNCHANGED vars_comb

\* self._parse_pot(): the groups of _pot_re on the "Total pot" line
ParsePot ==
    /\ hh_pc = "parse_pot"
    /\ total_pot' = Float(splitted.pot.total_pot)
    /\ rake' = Float(splitted.pot.rake)
    /\ hh_pc' = "parse_board"
    /\ UNCHANGED <<raw, cls, header_parsed, header_fields, splitted, error, max_players,
                   button_seat, players, preflop_actions, flop, turn, river, turn_actions,
                   river_actions, show_down, winners, players_advanced, parsed>>
    /\ UNCHANGED vars_comb

\* Card(cards[i]) of the Board line
Card(c) == [card |-> c]

\* self._parse_board(): returns at once when the summary holds no Board line
ParseBoard ==
    /\ hh_pc = "parse_board"
    /\ IF ~splitted.board
       THEN UNCHANGED <<turn, river>>
       ELSE LET cards == splitted.board_cards IN
            /\ turn' = IF Len(cards) > 3 THEN Card(cards[4]) ELSE PyNone
            /\ river' = IF Len(cards) > 4 THEN Card(cards[5]) ELSE PyNone
    /\ hh_pc' = "parse_winners"
    /\ UNCHANGED <<raw, cls, header_parsed, header_fields, splitted, error, max_players,
                   button_seat, players, preflop_actions, flop, turn_actions, river_actions,
                   show_down, total_pot, rake, winners, players_advanced, parsed>>
    /\ UNCHANGED vars_comb

\* self._splitted[self._sections[-1] + 4:], the lines _parse_winners scans: the index
\* is that of the first per-seat line when the summary holds a Board line, and of the
\* second otherwise
WinnerLines(sp) ==
    IF sp.board THEN sp.summary ELSE SubSeq(sp.summary, 2, Len(sp.summary))

\* tuple(winners) for a set: its elements, each once, in some order
RECURSIVE SetToTuple(_)
SetToTuple(S) ==
    IF S = {} THEN <<>>
    ELSE LET e == CHOOSE e \in S : TRUE IN <<e>> \o SetToTuple(S \ {e})

\* the loop of PokerStarsHandHistory._parse_winners over lines[i..], from the winners
\* set ws and the players ps: [ok, winners, players] at the end of the loop,
\* [ok |-> FALSE, ..] when it raises.  Seat numbers are at least 1 here, so
\* players[seat - 1] raises IndexError exactly when seat exceeds the length.
RECURSIVE winners_loop(_, _, _, _, _)
winners_loop(lines, i, sd, ws, ps) ==
    IF i > Len(lines) THEN [ok |-> TRUE, winners |-> ws, players |-> ps]
    ELSE LET line == lines[i] IN
         IF ~sd /\ line.kind = "collected"
         THEN winners_loop(lines, i + 1, sd, ws \cup {line.name}, ps)
         ELSE IF sd /\ line.kind = "showed"
         THEN IF line.seat \notin 1..Len(ps)
              THEN [ok |-> FALSE, error |-> "IndexError", winners |-> ws, players |-> ps]
              ELSE winners_loop(lines, i + 1, sd,
                        IF line.status = "win" THEN ws \cup {line.name} ELSE ws,
                        [ps EXCEPT ![line.seat].combo = line.combination])
         ELSE winners_loop(lines, i + 1, sd, ws, ps)

\* self._parse_winners()
ParseWinners ==
    /\ hh_pc = "parse_winners"
    /\ LET r == winners_loop(WinnerLines(splitted), 1, show_down, {}, players) IN
        /\ players' = r.players
        /\ IF r.ok
           THEN winners' = SetToTuple(r.winners) /\ hh_pc' = "init_advanced_seat"
                    /\ error' = error
           ELSE winners' = winners /\ hh_pc' = "raised" /\ error' = r.error
    /\ UNCHANGED <<raw, cls, header_parsed, header_fields, splitted, max_players, button_seat,
                   preflop_actions, flop, turn, river, turn_actions, river_actions, show_down,
                   total_pot, rake, players_advanced, parsed>>
    /\ UNCHANGED vars_comb

\* self._init_advanced_seat()
InitAdvancedSeat ==
    /\ hh_pc = "init_advanced_seat"
    /\ players_advanced' = [i \in 1..max_players |-> [name |-> None]]
    /\ hh_pc' = "parse_summary"
    /\ UNCHANGED <<raw, cls, header_parsed, header_fields, splitted, error, max_players,
                   button_seat, players, preflop_actions, flop, turn, river, turn_actions,
                   river_actions, show_down, total_pot, rake, winners, parsed>>
    /\ UNCHANGED vars_comb

\* match.group("street").lower()
StreetLower == [s \in {"Flop", "Turn", "River"} |->
                    IF s = "Flop" THEN "flop" ELSE IF s = "Turn" THEN "turn" ELSE "river"]

\* the dict that _parse_summary stores for one line; [ok |-> FALSE, error] when the
\* line's branch raises
summary_record(line, ps) ==
    IF line.kind = "showed"
    THEN LET combination == parse_poker_stars_combination(CombinationLines[line.combination])
         IN IF ~combination.ok THEN Raise(combination.error)
            ELSE IF line.seat \notin 1..Len(ps) THEN Raise("IndexError")
            ELSE [ok |-> TRUE,
                  rec |-> [name |-> ps[line.seat].name,
                           stage |-> "showdown",
                           is_winner |-> (line.status = "won"),
                           hand |-> line.cards,
                           action |-> "showed",
                           hand_combination |-> to_string(combination)]]
    ELSE IF line.kind = "folded"
    THEN IF line.seat \notin 1..Len(ps) THEN Raise("IndexError")
         ELSE [ok |-> TRUE,
               rec |-> [name |-> ps[line.seat].name,
                        stage |-> IF line.street = None THEN "preflop"
                                  ELSE StreetLower[line.street],
                        is_winner |-> FALSE,
                        hand |-> <<>>,
                        action |-> "folded",
                        hand_combination |-> None]]
    ELSE \* "mucked": _summary_fold_re does not match a line without 'folded', and
         \* match.group raises on the None it returns
         Raise("AttributeError")

\* the loop of _parse_summary over lines[i..], from the records adv
RECURSIVE summary_loop(_, _, _, _)
summary_loop(lines, i, adv, ps) ==
    IF i > Len(lines) THEN [ok |-> TRUE, players_advanced |-> adv]
    ELSE IF lines[i].kind \notin {"showed", "folded", "mucked"}
    THEN summary_loop(lines, i + 1, adv, ps)
    ELSE LET r == summary_record(lines[i], ps) IN
         IF ~r.ok THEN [ok |-> FALSE, error |-> r.error, players_advanced |-> adv]
         ELSE summary_loop(lines, i + 1, [adv EXCEPT ![lines[i].seat] = r.rec], ps)

\* self._parse_summary()
ParseSummary ==
    /\ hh_pc = "parse_summary"
    /\ LET r == summary_loop(splitted.summary, 1, players_advanced, players) IN
        /\ players_advanced' = r.players_advanced
        /\ IF r.ok
           THEN hh_pc' = "parse_position" /\ error' = error
           ELSE hh_pc' = "raised" /\ error' = r.error
    /\ UNCHANGED <<raw, cls, header_parsed, header_fields, splitted, max_players, button_seat,
                   players, preflop_actions, flop, turn, river, turn_actions, river_actions,
                   show_down, total_pot, rake, winners, parsed>>
    /\ UNCHANGED vars_comb

\* shift_seat = lambda a: (button_index + a) % self.max_players, as a 1-based index
shift_seat(button_index, a, n) == ((button_index + a) % n) + 1

\* the assignments of _parse_position, in the order of the code: <<offset, position>>
position_writes(n) ==
    IF n = 2 THEN <<[offset |-> 0, position |-> BTN], [offset |-> 1, position |-> BB]>>
    ELSE LET last_position == (n - 1) \div 3
             direct == [k \in 1..(n - last_position) |->
                            [offset |-> k - 1,
                             position |-> IF k <= Len(PositionByInt)
                                          THEN PositionByInt[k] ELSE None]]
             hj == IF last_position = 2
                   THEN <<[offset |-> n - 2, position |-> HJ]>> ELSE <<>>
             co == IF last_position = 2 \/ last_position = 1
                   THEN <<[offset |-> n - 1, position |-> CO]>> ELSE <<>>
         IN direct \o hj \o co

\* the writes applied one after the other; Position(i) raises ValueError for an i that
\* no member holds, and the writes made before it stay
RECURSIVE apply_writes(_, _, _, _, _, _)
apply_writes(ws, i, ps, adv, button_index, n) ==
    IF i > Len(ws) THEN [ok |-> TRUE, players |-> ps, players_advanced |-> adv]
    ELSE IF ws[i].position = None
    THEN [ok |-> FALSE, error |-> "ValueError", players |-> ps, players_advanced |-> adv]
    ELSE LET s == shift_seat(button_index, ws[i].offset, n) IN
         apply_writes(ws, i + 1,
                      [ps EXCEPT ![s].position = ws[i].position],
                      [adv EXCEPT ![s] = DictSet(adv[s], "position", ws[i].position)],
                      button_index, n)

\* PokerStarsHandHistory._parse_position(self)
parse_position(ps, adv, button, n) ==
    apply_writes(position_writes(n), 1, ps, adv, button - 1, n)

\* self._parse_position()
ParsePosition ==
    /\ hh_pc = "parse_position"
    /\ LET r == parse_position(players, players_advanced, button_seat, max_players) IN
        /\ players' = r.players
        /\ players_advanced' = r.players_advanced
        /\ IF r.ok
           THEN hh_pc' = "del_split_vars" /\ error' = error
           ELSE hh_pc' = "raised" /\ error' = r.error
    /\ UNCHANGED <<raw, cls, header_parsed, header_fields, splitted, max_players, button_seat,
                   preflop_actions, flop, turn, river, turn_actions, river_actions, show_down,
                   total_pot, rake, winners, parsed>>
    /\ UNCHANGED vars_comb

\* "self._del_split_vars(); self.parsed = True" that does not wait for _parse_position
Finish_before_position ==
    /\ hh_pc \in {"parse_position", "del_split_vars"}
    /\ splitted' = NoAttr
    /\ parsed' = TRUE
    /\ hh_pc' = "done"
    /\ UNCHANGED <<raw, cls, header_parsed, header_fields, error, max_players, button_seat,
                   players, preflop_actions, flop, turn, river, turn_actions, river_actions,
                   show_down, total_pot, rake, winners, players_advanced>>
    /\ UNCHANGED vars_comb

\* self._del_split_vars(); self.parsed = True
Finish ==
    /\ hh_pc = "del_split_vars"
    /\ splitted' = NoAttr
    /\ parsed' = TRUE
    /\ hh_pc' = "done"
    /\ UNCHANGED <<raw, cls, header_parsed, header_fields, error, max_players, button_seat,
                   players, preflop_actions, flop, turn, river, turn_actions, river_actions,
                   show_down, total_pot, rake, winners, players_advanced>>
    /\ UNCHANGED vars_comb

NextHand ==
    \/ ParseHeader
    \/ ParseTable
    \/ ParsePlayers
    \/ ParseButton
    \/ ParsePreflop
    \/ ParseFlop
    \/ ParseTurn
    \/ ParseRiver
    \/ ParseShowdown
    \/ ParsePot
    \/ ParseBoard
    \/ ParseWinners
    \/ InitAdvancedSeat
    \/ ParseSummary
    \/ ParsePosition
    \/ Finish

\* parse() and the calls of parse_header() around it
NextApi ==
    \/ CallParseHeader
    \/ NextHand

(***************************************************************************)
(* The hand texts.                                                         *)
(***************************************************************************)
MaxTable == 9           \* the largest table of the seat-layout texts
MaxSummaryLines == 3    \* the most per-seat summary lines of a text
MaxStreetLines == 2     \* the most action lines of the varied street of a text

\* PokerStars Hand #1: Hold'em No Limit ($1/$2 USD) - 2026/01/01 12:00:00 ET
StdHeader ==
    [tournament |-> PyNone,
     blinds |-> [form |-> "cash", sb |-> <<"1">>, currency |-> Str(<<"U","S","D">>)]]

\* the five cards of a full Board line
BoardCardTexts == <<"2s", "6d", "6h", "4s", "Kc">>

\* a hand text: the table line, the seat lines, whether the SHOW DOWN marker and the
\* Board line are in it, and the per-seat summary lines; the hand saw n of the streets
\* flop, turn, river, with one fold before the flop, no action on the streets,
\* "Total pot $30 | Rake $1", and the Board line, if any, of the cards dealt
HandText(n, table, seats, show_down_marker, board_line, summary) ==
    [table |-> table, seats |-> seats, show_down |-> show_down_marker, board |-> board_line,
     summary |-> summary,
     header |-> StdHeader,
     preflop |-> <<<<"B","o","b",":"," ","f","o","l","d","s">>>>,
     streets |-> n, flop |-> <<>>, turn |-> <<>>, river |-> <<>>,
     pot |-> [total_pot |-> <<"3", "0">>, rake |-> <<"1">>],
     board_cards |-> IF n = 0 THEN <<>> ELSE SubSeq(BoardCardTexts, 1, 2 + n)]

\* a freshly constructed object of the class c on the text r
NewObject(c, r) ==
    /\ raw = r
    /\ cls = c
    /\ header_parsed = FALSE
    /\ header_fields = <<>>
    /\ preflop_actions = NoAttr
    /\ flop = NoAttr
    /\ turn = NoAttr
    /\ river = NoAttr
    /\ turn_actions = NoAttr
    /\ river_actions = NoAttr
    /\ total_pot = NoAttr
    /\ rake = NoAttr
    /\ splitted = NoAttr
    /\ hh_pc = "parse_header"
    /\ error = None
    /\ max_players = 0
    /\ button_seat = 0
    /\ players = <<>>
    /\ show_down = FALSE
    /\ winners = <<>>
    /\ players_advanced = <<>>
    /\ parsed = FALSE

\* a freshly constructed PokerStarsHandHistory on the text r
NewHand(r) == NewObject(PokerStarsHandHistory, r)

\* no hand is parsed: the Combination operations run on their own
IdleHand ==
    /\ raw = NoAttr
    /\ cls = None
    /\ header_parsed = FALSE
    /\ header_fields = <<>>
    /\ preflop_actions = NoAttr
    /\ flop = NoAttr
    /\ turn = NoAttr
    /\ river = NoAttr
    /\ turn_actions = NoAttr
    /\ river_actions = NoAttr
    /\ total_pot = NoAttr
    /\ rake = NoAttr
    /\ splitted = NoAttr
    /\ hh_pc = "idle"
    /\ error = None
    /\ max_players = 0
    /\ button_seat = 0
    /\ players = <<>>
    /\ show_down = FALSE
    /\ winners = <<>>
    /\ players_advanced = <<>>
    /\ parsed = FALSE

InitCombination == InitComb /\ IdleHand

\* the Combination operations
SpecComb == InitCombination /\ [][NextComb]_vars

\* texts of every table size and button, any set of seats taken, no summary lines
LayoutTexts ==
    UNION {{HandText(3, [max |-> n, button |-> b], S, FALSE, TRUE, <<>>) :
                b \in 1..n, S \in SUBSET (1..n)} : n \in 2..MaxTable}

InitLayout == InitComb /\ \E r \in LayoutTexts : NewHand(r)

\* parse() on the seat-layout texts
SpecPos == InitLayout /\ [][NextHand]_vars

\* the per-seat summary lines of the seats 1 (Alice) and 3 (Bob)
LineSeats == {1, 3}
NoLineFields == [status |-> None, cards |-> <<>>, combination |-> None, street |-> None]
Line(kind, seat, fields) ==
    [kind |-> kind, seat |-> seat, name |-> SeatNames[seat], status |-> fields.status,
     cards |-> fields.cards, combination |-> fields.combination, street |-> fields.street]
SummaryLines ==
    \* Seat 3: Bob showed [Ah Kh] and won ($30) with a pair of Aces
    {Line("showed", s, [NoLineFields EXCEPT !.status = st, !.cards = <<"Ah", "Kh">>,
                            !.combination = IF s = 3 THEN "a pair of Aces"
                                            ELSE "a flush, King high"]) :
        s \in LineSeats, st \in {"won", "lost"}}
    \* Seat 3: Bob collected ($30)
    \cup {Line("collected", s, NoLineFields) : s \in LineSeats}
    \* Seat 1: Alice folded before Flop / Seat 3: Bob folded on the Flop
    \cup {Line("folded", s, [NoLineFields EXCEPT !.street = IF s = 3 THEN "Flop" ELSE None]) :
            s \in LineSeats}
    \* Seat 3: Bob mucked [Ah Kh]
    \cup {Line("mucked", s, NoLineFields) : s \in LineSeats}
    \* a line with none of the four words
    \cup {Line("other", 1, NoLineFields)}

SeqsUpTo(S, n) == UNION {[1..k -> S] : k \in 0..n}

\* texts of a 6-max table with three players and up to MaxSummaryLines summary lines
SummaryTexts ==
    {HandText(IF bd THEN 3 ELSE 0, [max |-> 6, button |-> 1], {1, 3, 5}, sd, bd, ls) :
        sd \in BOOLEAN, bd \in BOOLEAN, ls \in SeqsUpTo(SummaryLines, MaxSummaryLines)}

InitSummary == InitComb /\ \E r \in SummaryTexts : NewHand(r)

\* parse() on the summary texts
SpecWin == InitSummary /\ [][NextHand]_vars

(***************************************************************************)
(* Properties of the position assignment                                   *)
(***************************************************************************)
\* the position stage has run and returned
PositionsAssigned == hh_pc \in {"del_split_vars", "done"}

IsActive(s) == players[s].name # EmptySeatNames[s]
ActiveSeats == {s \in 1..Len(players) : IsActive(s)}

\* the seats in rotation order from the button, and the active ones among them
Rotation == [k \in 1..max_players |-> ((button_seat - 1 + k - 1) % max_players) + 1]
ActiveRotation == SelectSeq(Rotation, IsActive)

\* the label of a seat in both records of it; None when either has none
LabelOf(s) ==
    IF "position" \in DOMAIN players_advanced[s]
            /\ players_advanced[s].position = players[s].position
    THEN players[s].position
    ELSE None
Unlabelled(s) ==
    /\ players[s].position \in {None, "EMP"}
    /\ "position" \in DOMAIN players_advanced[s] => players_advanced[s].position = "EMP"

\* the label the general rule gives offset k of n active seats
ClaimedDirectLabels == <<"BTN", "SB", "BB", "UTG", "UTG1", "UTG2", "UTG3", "UTG4">>
ClaimedLabel(n, k) ==
    LET floaters == (n - 1) \div 3 IN
    IF k <= n - floaters - 1 THEN ClaimedDirectLabels[k + 1]
    ELSE IF floaters = 2 /\ k = n - 2 THEN "HJ"
    ELSE "CO"

\* C6: with exactly two active seats, whatever the table size and the seat numbers,
\* the button seat is labelled SB, the other active seat BB, and no seat BTN.
C6_HeadsUpButtonIsSB ==
    (PositionsAssigned /\ Cardinality(ActiveSeats) = 2 /\ button_seat \in ActiveSeats) =>
        /\ LabelOf(button_seat) = "SB"
        /\ \A s \in ActiveSeats \ {button_seat} : LabelOf(s) = "BB"
        /\ \A s \in 1..max_players :
            /\ players[s].position # "BTN"
            /\ "position" \in DOMAIN players_advanced[s]
                    => players_advanced[s].position # "BTN"

\* C7: with n active seats, 3 <= n <= 9, the k-th active seat in rotation order from
\* the button (k = 0..n-1) is labelled BTN, SB, BB, UTG, UTG+1, ... for
\* k <= n-floaters-1, HJ for k = n-2 when floaters = 2, and CO for k = n-1 when
\* floaters >= 1, floaters = floor((n-1)/3); so every active seat has one label and no
\* label is used twice, and nine seats read BTN, SB, BB, UTG, UTG+1, UTG+2, UTG+3, HJ, CO.
C7_GeneralRule ==
    (PositionsAssigned /\ Cardinality(ActiveSeats) \in 3..9) =>
        \A k \in 1..Len(ActiveRotation) :
            LabelOf(ActiveRotation[k]) = ClaimedLabel(Len(ActiveRotation), k - 1)

\* the same on the tables with no empty seat
C7_GeneralRuleFullTable ==
    (PositionsAssigned /\ Cardinality(ActiveSeats) \in 3..9
            /\ Cardinality(ActiveSeats) = max_players) =>
        \A k \in 1..Len(ActiveRotation) :
            LabelOf(ActiveRotation[k]) = ClaimedLabel(Len(ActiveRotation), k - 1)

\* C8: on a table with empty seats (and a player), no empty seat gets a label (other than EMP), every
\* active seat gets one, and the labels are those of the rule for the number of active
\* seats, not for the table size.
C8_EmptySeatsExcluded ==
    (PositionsAssigned /\ ActiveSeats # 1..max_players /\ ActiveSeats # {}) =>
        /\ \A s \in (1..max_players) \ ActiveSeats : Unlabelled(s)
        /\ \A s \in ActiveSeats : LabelOf(s) \notin {None, "EMP"}
        /\ Cardinality(ActiveSeats) = 2 => {LabelOf(s) : s \in ActiveSeats} = {"SB", "BB"}
        /\ Cardinality(ActiveSeats) \in 3..9 =>
                {LabelOf(s) : s \in ActiveSeats}
                    = {ClaimedLabel(Cardinality(ActiveSeats), k) :
                            k \in 0..(Cardinality(ActiveSeats) - 1)}

\* C9: position assignment on a table whose seats are all empty ends in an error; it
\* never returns normally.
C9_AllEmptyRaises ==
    (Len(players) > 0 /\ ActiveSeats = {}) => ~PositionsAssigned

(***************************************************************************)
(* Properties of the winner resolution                                     *)
(***************************************************************************)
\* the winners stage has run and returned
WinnersResolved ==
    hh_pc \in {"init_advanced_seat", "parse_summary", "parse_position", "del_split_vars",
               "done"}
    \/ (hh_pc = "raised" /\ Len(players_advanced) > 0)

WinnerSet == {winners[i] : i \in 1..Len(winners)}

\* C10: for a hand that reached showdown (its summary holds the Board line), the
\* winner set is exactly the set of the names of the 'showed ... and won' lines;
\* 'and lost' lines add nothing.
C10_ShowdownWinners ==
    (WinnersResolved /\ show_down /\ raw.board) =>
        WinnerSet = {raw.summary[i].name : i \in {j \in 1..Len(raw.summary) :
                        raw.summary[j].kind = "showed" /\ raw.summary[j].status = "won"}}

\* what the code does instead: no line of a showdown hand adds a winner
C10_ShowdownWinnersEmpty ==
    (WinnersResolved /\ show_down) => winners = <<>>

\* the names of the 'collected' lines of the summary
CollectedNames ==
    {raw.summary[i].name : i \in {j \in 1..Len(raw.summary) : raw.summary[j].kind = "collected"}}

\* C11: for a hand that did not reach showdown, the winner collection holds each name
\* of a 'collected' summary line exactly once, however many such lines name the same
\* player; every name of a 'collected' line is in it and no other name is.
C11_CollectedWinners ==
    (WinnersResolved /\ ~show_down) =>
        /\ WinnerSet = CollectedNames
        /\ Len(winners) = Cardinality(WinnerSet)

\* the same on the hands whose summary holds a Board line, where the scan of
\* _parse_winners starts at the first per-seat line
C11_CollectedWinnersWithBoard ==
    (WinnersResolved /\ ~show_down /\ raw.board) =>
        /\ WinnerSet = CollectedNames
        /\ Len(winners) = Cardinality(WinnerSet)

(***************************************************************************)
(* Properties of the per-seat summary records                              *)
(***************************************************************************)
\* the summary stage has run and returned
SummaryReturned == hh_pc \in {"parse_position", "del_split_vars", "done"}

\* the summary stage has raised: the records exist and no position is written yet
SummaryRaised ==
    /\ hh_pc = "raised"
    /\ Len(players_advanced) > 0
    /\ \A s \in 1..Len(players_advanced) : "position" \notin DOMAIN players_advanced[s]

\* the summary lines that write a per-seat record
RecordKinds == {"showed", "folded", "mucked"}

\* line i is the last line of the summary that writes the record of its seat
LastRecordLine(i) ==
    /\ raw.summary[i].kind \in RecordKinds
    /\ \A j \in (i + 1)..Len(raw.summary) :
            ~(raw.summary[j].kind \in RecordKinds /\ raw.summary[j].seat = raw.summary[i].seat)

\* C18: every fold line and every muck line of the summary fills the per-seat record
\* of its seat with the seat's name, the stage reached, the action ('folded' or
\* 'mucked'), winner flag false and no hand-ranking data, without raising; a 'mucked'
\* line is handled like a 'folded' one and records the stage showdown.
C18_FoldAndMuckRecords ==
    (hh_pc # "idle" /\ Len(players_advanced) > 0
            /\ \A i \in 1..Len(raw.summary) : raw.summary[i].kind # "showed") =>
        /\ ~SummaryRaised
        /\ SummaryReturned =>
            \A i \in 1..Len(raw.summary) :
                (raw.summary[i].kind \in {"folded", "mucked"} /\ LastRecordLine(i)) =>
                    LET line == raw.summary[i]
                        rec == players_advanced[line.seat]
                    IN /\ {"name", "stage", "action", "is_winner", "hand_combination"}
                                \subseteq DOMAIN rec
                       /\ rec.name = players[line.seat].name
                       /\ rec.action = line.kind
                       /\ rec.stage = IF line.kind = "mucked" THEN "showdown"
                                      ELSE IF line.street = None THEN "preflop"
                                      ELSE StreetLower[line.street]
                       /\ rec.is_winner = FALSE
                       /\ rec.hand_combination = None

\* what the code does with fold lines alone: they fill the records as claimed
C18_FoldRecords ==
    (hh_pc # "idle" /\ Len(players_advanced) > 0
            /\ \A i \in 1..Len(raw.summary) : raw.summary[i].kind \notin {"showed", "mucked"}) =>
        /\ ~SummaryRaised
        /\ SummaryReturned =>
            \A i \in 1..Len(raw.summary) :
                (raw.summary[i].kind = "folded" /\ LastRecordLine(i)) =>
                    LET line == raw.summary[i]
                        rec == players_advanced[line.seat]
                    IN /\ rec.name = players[line.seat].name
                       /\ rec.action = "folded"
                       /\ rec.stage = IF line.street = None THEN "preflop"
                                      ELSE StreetLower[line.street]
                       /\ rec.is_winner = FALSE
                       /\ rec.hand_combination = None

\* C20: after a completed parse() of a hand that reached showdown, a player's name is
\* in winners if and only if that player's per-seat record has is_winner true.
C20_WinnersAgreeWithRecords ==
    (hh_pc = "done" /\ show_down) =>
        \A s \in 1..Len(players_advanced) :
            players[s].name \in WinnerSet
                <=> ("is_winner" \in DOMAIN players_advanced[s] /\ players_advanced[s].is_winner)

(***************************************************************************)
(* The texts of the action lines.                                          *)
(***************************************************************************)
\* the action lines a section of a text can hold
ActionLines ==
    {<<"B","o","b",":"," ","f","o","l","d","s">>,
     <<"B","o","b",":"," ","b","e","t","s"," ","$","4">>,
     <<"U","n","c","a","l","l","e","d"," ","b","e","t"," ","(","$","4",")"," ","r","e","t","u","r","n","e","d"," ","t","o"," ","B","o","b">>,
     <<"B","o","b"," ","c","o","l","l","e","c","t","e","d"," ","$","4"," ","f","r","o","m"," ","p","o","t">>,
     <<"B","o","b",":"," ","d","o","e","s","n","'","t"," ","s","h","o","w"," ","h","a","n","d">>,
     <<"B","o","b"," ","s","a","i","d",","," ","\"","h","i","\"">>,
     <<"B","o","b"," ","s","a","i","d",","," ","\"","I"," ","c","o","l","l","e","c","t","e","d","\"">>,
     <<"B","o","b"," ","s","a","i","d",","," ","\"","5"," ","c","o","l","l","e","c","t","e","d","\"">>,
     <<"B","o","b"," ","s","a","i","d",","," ","\"","d","o","e","s","n","'","t"," ","s","h","o","w"," ","h","a","n","d","\"">>,
     <<"B","o","b"," ","s","a","i","d",","," ","\"","p","o","t",":"," ","5","\"">>,
     <<"U","n","c","a","l","l","e","d"," ","b","e","t"," ","s","a","i","d",","," ","\"","h","i","\"">>,
     <<"B","o","b",":"," ","d","a","n","c","e","s">>,
     <<"B","o","b"," ","l","e","a","v","e","s"," ","t","h","e"," ","t","a","b","l","e">>}

\* the sections that hold action lines, in the order of the text
SectionNames == <<"preflop", "flop", "turn", "river">>

\* the action lines of the k-th section of the text r
SectionLines(r, k) ==
    IF k = 1 THEN r.preflop ELSE IF k = 2 THEN r.flop ELSE IF k = 3 THEN r.turn ELSE r.river

\* the text of a hand that saw n streets, with the action lines ls in its k-th section
ActionText(n, k, ls) ==
    [HandText(n, [max |-> 6, button |-> 1], {1, 3, 5}, FALSE, n >= 1,
              <<Line("folded", 1, NoLineFields), Line("collected", 3, NoLineFields)>>)
        EXCEPT ![SectionNames[k]] = ls]

\* texts of a 6-max table with three players that saw 0 to 3 streets, one section of
\* which holds up to MaxStreetLines action lines
ActionTexts ==
    UNION {{ActionText(n, k, ls) : k \in 1..(n + 1), ls \in SeqsUpTo(ActionLines, MaxStreetLines)} :
              n \in 0..3}

InitParse == InitComb /\ \E r \in ActionTexts : NewHand(r)

\* parse() on the action texts, and parse_header() called by the user of the object
SpecParse == InitParse /\ [][NextApi]_vars

(***************************************************************************)
(* Properties of the action lines                                          *)
(***************************************************************************)
\* the stage of parse() that reads the k-th section
SectionStage == <<"parse_preflop", "parse_flop", "parse_turn", "parse_river">>

\* the stages of parse() in the order of their calls
StageOrder ==
    <<"parse_header", "parse_table", "parse_players", "parse_button", "parse_preflop",
      "parse_flop", "parse_turn", "parse_river", "parse_showdown", "parse_pot", "parse_board",
      "parse_winners", "init_advanced_seat", "parse_summary", "parse_position",
      "del_split_vars", "done">>
StageIndex(pc) == CHOOSE i \in 1..Len(StageOrder) : StageOrder[i] = pc

\* parse() has left the stage st behind: it runs a later stage or has returned
StagePassed(st) ==
    /\ hh_pc \in {StageOrder[i] : i \in 1..Len(StageOrder)}
    /\ StageIndex(hh_pc) > StageIndex(st)

\* parse() has not left the stage st behind: it runs st or a stage before it
StageNotPassed(st) ==
    /\ hh_pc \in {StageOrder[i] : i \in 1..Len(StageOrder)}
    /\ StageIndex(hh_pc) <= StageIndex(st)

\* the claimed rules: a chat line holds the quoted-speech marker
IsChat(line) == Contains(line, <<" ","s","a","i","d",","," ","\"">>)

\* the claimed rules: the line is 'name: verb [amount]' and an alias table holds the verb
IsGenericAction(line) ==
    /\ Contains(line, <<":"," ">>)
    /\ ActionOf(Partition(Partition(line, <<":"," ">>).tail, <<" ">>).head) # None

\* the claimed rules: one of the six classification rules before "error" accepts the line
ClaimedAccepted(line) ==
    \/ IsChat(line)
    \/ StartsWith(line, <<"U","n","c","a","l","l","e","d"," ","b","e","t">>)
    \/ Contains(line, <<"c","o","l","l","e","c","t","e","d">>)
    \/ Contains(line, <<"d","o","e","s","n","'","t"," ","s","h","o","w"," ","h","a","n","d">>)
    \/ IsGenericAction(line)

\* the sections of the text r, among the first m, that hold a line no rule accepts
UnacceptedSections(r, m) ==
    {k \in 1..m : k <= r.streets + 1 /\
                  \E i \in 1..Len(SectionLines(r, k)) : ~ClaimedAccepted(SectionLines(r, k)[i])}

\* C12: an action line that no classification rule accepts, on any street (preflop,
\* flop, turn or river), raises an error that leaves parse(): parse() never gets past
\* the stage that reads the street and never completes.
C12_UnacceptedLineRaises ==
    \A k \in UnacceptedSections(raw, 4) : ~StagePassed(SectionStage[k])

\* C12, the part that holds: an unaccepted line before the flop or on the flop ends
\* parse() at that stage.
C12_UnacceptedLineRaisesToFlop ==
    \A k \in UnacceptedSections(raw, 2) : ~StagePassed(SectionStage[k])

\* the action list recorded for the k-th section: preflop_actions, the actions of the
\* flop object, turn_actions, river_actions
SectionActions(k) ==
    IF k = 1 THEN preflop_actions
    ELSE IF k = 2 THEN (IF flop \in {PyNone, NoAttr} THEN flop ELSE flop.actions)
    ELSE IF k = 3 THEN turn_actions
    ELSE river_actions

\* the sections of the text r that hold lines, all of them among the lines of L
SectionsOf(r, L) ==
    {k \in 1..(r.streets + 1) :
        /\ SectionLines(r, k) # <<>>
        /\ \A i \in 1..Len(SectionLines(r, k)) : SectionLines(r, k)[i] \in L}

\* the chat lines among the action lines
ChatLines == {l \in ActionLines : IsChat(l)}

\* the chat lines that hold none of the texts of the other rules
PlainChatLines ==
    {l \in ChatLines : /\ ~StartsWith(l, <<"U","n","c","a","l","l","e","d"," ","b","e","t">>)
                       /\ ~Contains(l, <<"c","o","l","l","e","c","t","e","d">>)
                       /\ ~Contains(l, <<"d","o","e","s","n","'","t"," ","s","h","o","w"," ","h","a","n","d">>)}

\* C13: chat comes first in the classification, so a chat line is skipped on every
\* street including preflop, whatever else its text holds: a section of chat lines only
\* never makes parse() raise, and once its stage has run its action list is None and
\* the pot of the flop is None.
C13_ChatSkippedFirst ==
    \A k \in SectionsOf(raw, ChatLines) :
        /\ hh_pc # "raised"
        /\ StagePassed(SectionStage[k]) =>
              /\ SectionActions(k) = PyNone
              /\ (k = 2 => flop.pot = PyNone)

\* C13, the part that holds: on the flop, the turn and the river a chat line that
\* holds none of 'Uncalled bet' (at its start), 'collected', "doesn't show hand" is
\* skipped.
C13_PlainChatSkippedOnStreets ==
    \A k \in SectionsOf(raw, PlainChatLines) \ {1} :
        /\ hh_pc # "raised"
        /\ StagePassed(SectionStage[k]) =>
              /\ SectionActions(k) = PyNone
              /\ (k = 2 => flop.pot = PyNone)

(***************************************************************************)
(* Properties of the street markers                                        *)
(***************************************************************************)
\* the value recorded for the k-th section, k > 1: self.flop, self.turn, self.river
StreetValue(k) == IF k = 2 THEN flop ELSE IF k = 3 THEN turn ELSE river

\* the lines that every section takes without an error
PlainLines == {<<"B","o","b",":"," ","f","o","l","d","s">>, <<"B","o","b",":"," ","b","e","t","s"," ","$","4">>}

\* every line of every section of the text r is a plain line
PlainText(r) ==
    \A k \in 1..4 : \A i \in 1..Len(SectionLines(r, k)) : SectionLines(r, k)[i] \in PlainLines

\* C17: a missing FLOP, TURN or RIVER marker is not an error: parse() completes and
\* the street and every later street are recorded as absent, the street and its
\* action list both None; a street whose marker is present is not recorded as absent.
C17_MissingMarkerAbsent ==
    PlainText(raw) =>
        /\ hh_pc # "raised"
        /\ hh_pc = "done" =>
              \A k \in 2..4 :
                  IF k > raw.streets + 1
                  THEN StreetValue(k) = PyNone /\ SectionActions(k) = PyNone
                  ELSE StreetValue(k) # PyNone

\* C17, the part that holds: the street of a missing marker is None and parse()
\* completes, the street of a present marker is not None; the action list of a
\* missing turn or river is an attribute that was never assigned.
C17_MissingMarkerStreetNone ==
    PlainText(raw) =>
        /\ hh_pc # "raised"
        /\ hh_pc = "done" =>
              \A k \in 2..4 :
                  IF k > raw.streets + 1
                  THEN /\ StreetValue(k) = PyNone
                       /\ SectionActions(k) = IF k = 2 THEN PyNone ELSE NoAttr
                  ELSE StreetValue(k) # PyNone

(***************************************************************************)
(* Properties of parse() as a whole                                        *)
(***************************************************************************)
\* the protocol attributes as the construction of the object leaves them
NothingFilled ==
    /\ max_players = 0
    /\ button_seat = 0
    /\ players = <<>>
    /\ preflop_actions = NoAttr
    /\ flop = NoAttr
    /\ turn = NoAttr
    /\ river = NoAttr
    /\ turn_actions = NoAttr
    /\ river_actions = NoAttr
    /\ total_pot = NoAttr
    /\ winners = <<>>
    /\ players_advanced = <<>>

\* C15: an error at any stage of parse() leaves no partially populated object: when
\* parse() has raised, the object is not marked parsed and none of the fields that the
\* stages before the failing one filled (table, players, button, street actions, pot,
\* winners) holds a value.
C15_NoPartialObject == (hh_pc = "raised") => (~parsed /\ NothingFilled)

\* C15, the part that holds: when parse() has raised, the object is not marked parsed.
C15_NeverMarkedParsed == (hh_pc = "raised") => ~parsed

\* some per-seat record holds a position
PositionWritten ==
    \E s \in 1..Len(players_advanced) : "position" \in DOMAIN players_advanced[s]

\* what C16 says of a state
C16_StageState ==
    \* parsed becomes true only after every stage
    /\ parsed => hh_pc = "done"
    \* the buffers are there for every stage that reads them
    /\ splitted = NoAttr => hh_pc \in {"parse_header", "done"}
    \* the show-down flag is set before the winners are resolved
    /\ StagePassed("parse_showdown") => show_down = raw.show_down
    /\ StageNotPassed("parse_winners") => winners = <<>>
    \* the per-seat records exist before positions are written into them
    /\ StageNotPassed("parse_position") => ~PositionWritten
    /\ hh_pc = "parse_position" => Len(players_advanced) = max_players
    /\ PositionWritten => Len(players_advanced) = max_players

\* what C16 says of a step: a stage is followed by the next one of the order, or by
\* the exception that leaves parse()
C16_StageStep ==
    hh_pc' # hh_pc =>
        \/ hh_pc' = "raised"
        \/ \E i \in 1..(Len(StageOrder) - 1) : StageOrder[i] = hh_pc /\ StageOrder[i + 1] = hh_pc'

\* C16: parse() runs its stages in one fixed order (header with the split, table,
\* players, button, preflop, flop, turn, river, show-down flag, pot and rake, board,
\* winners, per-seat records, positions, discard of the buffers); the show-down flag is
\* set before the winners are resolved, the per-seat records exist before positions are
\* written, the buffers are discarded after the last stage that reads them, and parsed
\* becomes true only after every stage.
C16_FixedStageOrder == [](C16_StageState) /\ [][C16_StageStep]_vars

\* parse() returned on a hand with a show down, positions written into the records
C16_Witness ==
    /\ hh_pc = "done"
    /\ parsed
    /\ show_down
    /\ PositionWritten
    /\ splitted = NoAttr

(***************************************************************************)
(* Properties of parse_header                                              *)
(***************************************************************************)
\* the parse progress: 0 UNPARSED, 1 HEADER_PARSED, 2 BODY_PARSED
Progress == IF parsed THEN 2 ELSE IF header_parsed THEN 1 ELSE 0

\* a step of parse_header() called on its own: parse() stays where it is
HeaderCall == hh_pc' = hh_pc

\* every attribute of the object but the line buffers
vars_fields ==
    <<header_parsed, header_fields, error, max_players, button_seat, players, preflop_actions,
      flop, turn, river, turn_actions, river_actions, show_down, total_pot, rake, winners,
      players_advanced, parsed>>

\* C14: header parsing is idempotent and the progress goes UNPARSED -> HEADER_PARSED ->
\* BODY_PARSED: parse_header() called again once the header is parsed, before or after
\* parse(), changes no field and raises no error; parse() parses the header first when
\* it is not parsed and does not parse it again when it is; the progress never moves
\* backwards.
C14_HeaderIdempotent ==
    [][/\ (header_parsed /\ HeaderCall) => UNCHANGED vars_fields
       /\ (hh_pc = "parse_header" /\ ~HeaderCall) =>
              /\ hh_pc' = "parse_table" => header_parsed'
              /\ header_parsed => UNCHANGED <<header_fields, rake>>
       /\ Progress' >= Progress]_vars

\* C14, the part that holds: parse_header() called again before parse() changes no
\* field, parse() parses the header only when it is not parsed, and the progress never
\* moves backwards.
C14_HeaderIdempotentBeforeParse ==
    [][/\ (header_parsed /\ HeaderCall /\ hh_pc = "parse_header") => UNCHANGED vars_fields
       /\ (hh_pc = "parse_header" /\ ~HeaderCall) =>
              /\ hh_pc' = "parse_table" => header_parsed'
              /\ header_parsed => UNCHANGED <<header_fields, rake>>
       /\ Progress' >= Progress]_vars

(***************************************************************************)
(* The header texts.                                                       *)
(***************************************************************************)
\* the currency tokens of the header texts: two that Currency holds and one it does not
CurrencyTokens == {Str(<<"U","S","D">>), Str(<<"E","U","R">>), Str(<<"X","Y","Z">>)}

\* the tokens of "Tournament #7, Freeroll", "Tournament #7, $5", "Tournament #7, $5+$1",
\* "Tournament #7, $5 USD", "Tournament #7, $5+$1 USD", or none of them
TournamentTokens ==
    {PyNone, [ident |-> <<"7">>, freeroll |-> TRUE]}
    \cup {[ident |-> <<"7">>, freeroll |-> FALSE, buyin |-> <<"5">>, rake |-> rk, currency |-> cur] :
            rk \in {PyNone, Str(<<"1">>)}, cur \in {PyNone, Str(<<"U","S","D">>)}}

\* the tokens of "(10/20)", "(25/50)", "($1/$2)", "($0.50/$1)", "($1/$2 USD)", ...
BlindTokens ==
    {[form |-> "tour", sb |-> sb, currency |-> PyNone] : sb \in {<<"1","0">>, <<"2","5">>}}
    \cup {[form |-> "cash", sb |-> sb, currency |-> cur] :
            sb \in {<<"1">>, <<"0",".","5","0">>}, cur \in {PyNone} \cup CurrencyTokens}

\* the text of a hand under the header of the tokens t and b
HeaderText(t, b) ==
    [HandText(0, [max |-> 6, button |-> 1], {1, 3, 5}, FALSE, FALSE, <<>>)
        EXCEPT !.header = [tournament |-> t, blinds |-> b]]

HeaderTexts == {HeaderText(t, b) : t \in TournamentTokens, b \in BlindTokens}

HandClasses == {PokerStarsHandHistory, PokerStarsTournamentHandHistory}

InitHeader == InitComb /\ \E c \in HandClasses, r \in HeaderTexts : NewObject(c, r)

NextHeader == CallParseHeader

\* parse_header() of both classes on the header texts
SpecHeader == InitHeader /\ [][NextHeader]_vars

\* the header line holds a currency token, after the buy-in or after the blinds
HasCurrencyToken(h) ==
    \/ h.blinds.currency # PyNone
    \/ h.tournament # PyNone /\ ~h.tournament.freeroll /\ h.tournament.currency # PyNone

\* the header line is that of a freeroll tournament
IsFreeroll(h) == h.tournament # PyNone /\ h.tournament.freeroll

\* C19: after parse_header the money type is REAL if and only if the header line holds
\* a currency token, and PLAY otherwise; a freeroll tournament header with no currency
\* token gets USD as its currency; the game type is TOUR if and only if the header
\* holds a tournament identifier, whatever the blinds are.
C19_MoneyAndGameType ==
    header_parsed =>
        /\ header_fields.money_type = IF HasCurrencyToken(raw.header) THEN "REAL" ELSE "PLAY"
        /\ (IsFreeroll(raw.header) /\ ~HasCurrencyToken(raw.header)) =>
               header_fields.currency = "USD"
        /\ header_fields.game_type = IF raw.header.tournament # PyNone THEN "TOUR" ELSE "CASH"

\* C19, the part that holds: the currency of a freeroll without a currency token is
\* USD, and the game type follows the tournament identifier alone.
C19_FreerollAndGameType ==
    header_parsed =>
        /\ (IsFreeroll(raw.header) /\ ~HasCurrencyToken(raw.header)) =>
               header_fields.currency = "USD"
        /\ header_fields.game_type = IF raw.header.tournament # PyNone THEN "TOUR" ELSE "CASH"
====
